---------------------------- MODULE Spec2Model ----------------------------
(***************************************************************************)
(* RedditHoard: the relay engine of tg.py (run_uploader) and the           *)
(* acquisition engine of beta.py (fetch, download_file, the handlers,      *)
(* process_post, main), as state machines.                                 *)
(*                                                                         *)
(* SpecRelay : run_uploader, one sequential sender, an integer clock.      *)
(* SpecRelayLive : the same steps from a folder of two files, with weak   *)
(*             fairness, for the progress of the upload loop.              *)
(* SpecAcq   : beta.main, one asyncio task per post, the shared semaphore  *)
(*             and the shared existing_files set.                          *)
(***************************************************************************)
EXTENDS Integers, Sequences, FiniteSets, TLC

(***************************************************************************)
(* Bounds of the model.                                                    *)
(***************************************************************************)
MaxTime == 50
MaxSendTime == 1
MaxFloodWait == 5
MaxRuns == 2
MaxConcurrent == 2

(***************************************************************************)
(* tg.py configuration.                                                    *)
(***************************************************************************)
DELAY_BETWEEN == 3
MAX_RETRIES == 5
RPC_SLEEP == 5
CONN_SLEEP == 10
FLOOD_MARGIN == 2

(***************************************************************************)
(* beta.py configuration.                                                  *)
(***************************************************************************)
RETRIES == 3
IMGUR_CLIENT_ID == TRUE

\* The media files FOLDER_PATH may hold, in the order collect_files
\* returns them (sorted by name), and the content fingerprints they may
\* have.
FileNames == <<"a.jpg", "b.jpg", "c.webm">>

\* Every name os.walk may list in FOLDER_PATH, as sorted() orders them: the
\* media files, what ffmpeg writes next to c.webm, a file of size 0 and a
\* symbolic link whose target is gone.
DirNames == <<"a.jpg", "b.jpg", "c.webm", "c_stream.mp4",
              "c_stream_thumb.jpg", "c_thumb.jpg", "e.jpg", "l.jpg">>
Files == {DirNames[i] : i \in 1..Len(DirNames)}
ZeroByte == {"e.jpg"}
Dangling == {"l.jpg"}
Hashes == {"h1", "h2"}
NoHash == "None"

\* os.path.splitext of the names the relay handles.
SplitExt(f) ==
    CASE f = "a.jpg" -> <<"a", ".jpg">>
      [] f = "b.jpg" -> <<"b", ".jpg">>
      [] f = "c.webm" -> <<"c", ".webm">>
      [] f = "c_stream.mp4" -> <<"c_stream", ".mp4">>
      [] f = "c_stream_thumb.jpg" -> <<"c_stream_thumb", ".jpg">>
      [] f = "c_thumb.jpg" -> <<"c_thumb", ".jpg">>
      [] f = "e.jpg" -> <<"e", ".jpg">>
      [] f = "l.jpg" -> <<"l", ".jpg">>

\* line 51: VIDEO_EXT, as far as the folder has such files; the content
\* of a video is not the content of an image.
VIDEO_EXT == {".mp4", ".webm"}
IsVideo(f) == SplitExt(f)[2] \in VIDEO_EXT
VideoHashes == {"h3"}

\* What FOLDER_PATH may hold.
Folders == {{"a.jpg", "b.jpg"}, {"c.webm"}}

\* How a run of ffmpeg ends: with its output complete, with no output, or
\* failed or timed out with part of the output written.
EncoderOutcomes == {"ok", "failed", "partial"}

\* How the ffmpeg run of generate_thumbnail ends. A failed run that
\* leaves part of the one-frame .jpg differs from "failed" only in the
\* folder, the way "partial" does for the conversion, and is left out.
ThumbOutcomes == {"ok", "failed"}
NoPath == "None"

\* e.value of a FloodWait, and the time a send takes before it returns.
FloodValues == {1, MaxFloodWait}
SendTimes == {0, MaxSendTime}

VARIABLES
    \* ---- relay (tg.py) ----
    hashOf,        \* file_hash of each file of the folder (NoHash: OSError)
    uploaded,      \* the table "uploaded" of upload_state.db
    run,           \* which run of run_uploader this is
    rpc,           \* where run_uploader stands
    now,           \* asyncio.get_event_loop().time(), counted from the start of the run
    files,         \* collect_files(FOLDER_PATH)
    to_upload,     \* the pre-filtered list
    pre_skipped,
    idx,           \* position of the for loop in to_upload
    retries,
    success,
    sent,
    failed,
    errors_list,
    flood_until,
    sleep_for,     \* the argument of the pending asyncio.sleep of a handler
    attempts,      \* send_file calls made for the current file
    flood_gate,    \* channel side: latest t + W of the rate-limit signals of this run
    transmitted,   \* channel side: files whose send returned success, all runs
    folder,        \* the media files in FOLDER_PATH
    artifacts,     \* the _stream.mp4 and _thumb.jpg files in the folder
    norm,          \* how the encoder runs of the send_file in progress ended
    payload,       \* what the send_file in progress hands to the channel
    channel,       \* get_chat(CHANNEL_ID) of this run: not called yet, returned, raised
    db_faulty,     \* upload_state.db is on a disk that may fail a write
    \* ---- acquisition (beta.py) ----
    max_concurrent, \* the configured MAX_CONCURRENT
    tasks,         \* the submissions main() collected, one process_post each
    arun,          \* which run of beta.py this is
    disk,          \* the names in DOWNLOAD_DIR
    existing_files,
    sem,           \* free slots of asyncio.Semaphore(MAX_CONCURRENT)
    tpc,           \* per task: new, semwait, req, sleep, done
    todo,          \* per task: what its handler still has to do
    attempt,       \* per task: the loop variable of fetch
    holds,         \* per task: inside "async with sem"
    count,         \* per task: the handler's running total
    result,        \* per task: what process_post returned
    total_downloaded,
    requests,      \* per task: session.get calls of the current fetch
    slept,         \* per task: the sleep taken since the previous request of this fetch
    dl_last,       \* per task: how its last download_file ended
    writes,        \* per name: times the file was written in this run
    net_calls,     \* session.get calls of this run
    complete,      \* the run started with every expected file in place
    partial,       \* the files a write of this run left cut short
    aborted,       \* an exception left main(): the run is over
    wrote,         \* per task: download_file calls that returned 1
    muxed,         \* per task: merge_dash was called, with both parts downloaded or not
    fetched_present, \* a download_file called for a file in place went on to fetch
    enum,          \* main(): the subreddits are still to be listed, were listed, or listing raised
    handled_by,    \* per task: the branch of process_post that was taken
    \* ---- threaded downloader (main.py) ----
    media_posts,   \* the posts that passed is_media_post
    pending,       \* the posts process_single_post has not been run on
    downloads_dir, \* the names in the downloads folder
    branch,        \* per post: the branch of process_single_post taken
    downloaded_count, \* per post: what process_single_post returned
    gets,          \* per post: requests.get calls
    fetched,       \* per post: the names requests.get was called for
    cut,           \* the names a failed download left cut short
    mrun,          \* which run of the script this is
    batch,         \* where process_posts_batch stands
    redgifs_urls,  \* the ids get_redgifs_video_url_batch found a url for
    batch_total    \* total_downloaded of process_posts_batch

relayVars == <<hashOf, uploaded, run, rpc, now, files, to_upload, pre_skipped,
               idx, retries, success, sent, failed, errors_list, flood_until,
               sleep_for, attempts, flood_gate, transmitted, folder, artifacts,
               norm, payload, channel, db_faulty>>

acqVars == <<max_concurrent, tasks, arun, disk, existing_files, sem, tpc, todo,
             attempt, holds, count, result, total_downloaded, requests, slept,
             dl_last, writes, net_calls, complete, partial, aborted, wrote,
             muxed, fetched_present, enum, handled_by>>

mainVars == <<media_posts, pending, downloads_dir, branch, downloaded_count,
              gets, fetched, cut, mrun, batch, redgifs_urls, batch_total>>

vars == <<relayVars, acqVars, mainVars>>

Max(a, b) == IF a >= b THEN a ELSE b

----------------------------------------------------------------------------
(***************************************************************************)
(* beta.py: the submissions.                                               *)
(*                                                                         *)
(* A submission is what process_post reads of it: id, the parent of a     *)
(* crosspost, gallery_data (the media ids of its valid items), the        *)
(* reddit_video of media ("dash": a DASH manifest, "fallback": only a      *)
(* fallback_url, "none"), and the domain of url.                           *)
(***************************************************************************)
NoParent == "none"

Post(id, parent, gallery, video, domain) ==
    [id |-> id, parent |-> parent, gallery |-> gallery, video |-> video,
     domain |-> domain]

Submissions ==
    {Post("p1", NoParent, <<>>, "none", "i.redd.it"),
     Post("x1", "p1", <<>>, "none", "other"),
     Post("p2", NoParent, <<>>, "none", "i.redd.it"),
     Post("p3", NoParent, <<>>, "none", "gfycat.com"),
     Post("p4", NoParent, <<>>, "dash", "v.redd.it"),
     Post("p5", NoParent, <<"m1", "m2">>, "none", "reddit.com"),
     Post("p6", NoParent, <<>>, "none", "imgur.com/a"),
     Post("p7", NoParent, <<>>, "fallback", "v.redd.it"),
     Post("p8", NoParent, <<>>, "none", "other"),
     Post("p9", NoParent, <<>>, "none", "i.redd.it"),
     Post("p10", NoParent, <<"m1">>, "dash", "imgur.com"),
     Post("p11", NoParent, <<>>, "fallback", "i.redd.it")}

\* lines 186-189: the submissions of which url, subreddit or created_utc
\* cannot be read: process_post raises before its try.
Unreadable == {"p9"}

ById(id) == CHOOSE s \in Submissions : s.id = id

\* What main() may have collected from the subreddits.
Workloads ==
    {<<ById("p1"), ById("x1"), ById("p2")>>,
     <<ById("p3"), ById("p4")>>,
     <<ById("p5"), ById("p6")>>,
     <<ById("p7"), ById("p8"), ById("p1")>>,
     <<ById("p2"), ById("p9")>>,
     <<ById("p10"), ById("p11")>>}

\* The images the imgur album API lists for an album.
AlbumImages == <<"i1">>

\* lines 183-184: a crosspost is replaced by its parent.
ResolveSelf(s) == s
Resolve(s) == IF s.parent # NoParent THEN ById(s.parent) ELSE s

\* File names: f"{sub}-{id}-{created}{ext}", f"{sub}-{id}-{media_id}.jpg",
\* f"{id}_video.mp4", f"{id}_audio.mp4"; sub and created are the
\* submission's own, so a name is the id and what follows it.
Name(id, rest) == <<id, rest>>

\* One thing a handler does: download_file(name), a fetch of an API
\* ("lookup"), or merge_dash. counted: the handler adds download_file's
\* value to what it returns.
Op(op, name, counted) == [op |-> op, name |-> name, counted |-> counted]

\* lines 191-207: the branch of the if/elif chain of process_post that is
\* taken.
Classify(s) ==
    IF Len(s.gallery) > 0 THEN "handle_gallery"
    ELSE IF s.video \in {"dash", "fallback"} THEN "handle_reddit_video"
    ELSE IF s.domain \in {"imgur.com/a", "imgur.com"} THEN "handle_imgur"
    ELSE IF s.domain = "gfycat.com" THEN "handle_gfycat"
    ELSE IF s.domain = "i.redd.it" THEN "download_file"
    ELSE "none"

\* What the handler of each branch does first (lines 83-174, 204-207).
HandlerOps(s, handler) ==
    IF handler = "handle_gallery"
    THEN [k \in 1..Len(s.gallery) |->
              Op("download", Name(s.id, s.gallery[k]), TRUE)]
    ELSE IF handler = "handle_reddit_video" /\ s.video = "dash"
    THEN <<Op("download", Name(s.id, "_video.mp4"), FALSE),
           Op("download", Name(s.id, "_audio.mp4"), FALSE),
           Op("merge", Name(s.id, ".mp4"), FALSE)>>
    ELSE IF handler = "handle_reddit_video"
    THEN <<Op("download", Name(s.id, ".mp4"), TRUE)>>
    ELSE IF handler = "handle_imgur" /\ s.domain = "imgur.com/a"
                                    /\ IMGUR_CLIENT_ID
    THEN <<Op("lookup", Name(s.id, "album"), FALSE)>>
    ELSE IF handler = "handle_imgur"
    THEN <<Op("download", Name(s.id, ".jpg"), TRUE)>>
    ELSE IF handler = "handle_gfycat"
    THEN <<Op("lookup", Name(s.id, "gif"), FALSE)>>
    ELSE IF handler = "download_file"
    THEN <<Op("download", Name(s.id, ".jpg"), TRUE)>>
    ELSE <<>>

\* lines 191-207: the handler process_post picks, as the list of what it
\* does first.
Plan(s) == HandlerOps(s, Classify(s))

\* lines 143-154 and 166-174: what follows the lookup, by whether it
\* returned usable data.
AfterLookup(s, found) ==
    IF s.domain = "gfycat.com"
    THEN IF found
         THEN <<Op("download", Name(s.id, ".mp4"), TRUE)>>
         ELSE <<Op("download", Name(s.id, ".webm"), TRUE)>>
    ELSE IF found
         THEN [k \in 1..Len(AlbumImages) |->
                   Op("download", Name(s.id, AlbumImages[k]), TRUE)]
         ELSE <<Op("download", Name(s.id, ".jpg"), TRUE)>>

\* The files a submission leaves in DOWNLOAD_DIR when all goes well.
Expected(s) ==
    IF Len(s.gallery) > 0
    THEN {Name(s.id, s.gallery[k]) : k \in 1..Len(s.gallery)}
    ELSE IF s.video \in {"dash", "fallback"} THEN {Name(s.id, ".mp4")}
    ELSE IF s.domain = "imgur.com/a"
    THEN {Name(s.id, AlbumImages[k]) : k \in 1..Len(AlbumImages)}
    ELSE IF s.domain = "imgur.com" THEN {Name(s.id, ".jpg")}
    ELSE IF s.domain = "gfycat.com" THEN {Name(s.id, ".mp4")}
    ELSE IF s.domain = "i.redd.it" THEN {Name(s.id, ".jpg")}
    ELSE {}

\* Every name a handler can give a file of submission s.
NamesOf(s) ==
    {Name(s.id, r) : r \in {".jpg", ".mp4", ".webm", "_video.mp4",
                            "_audio.mp4"}}
    \cup {Name(s.id, s.gallery[k]) : k \in 1..Len(s.gallery)}
    \cup {Name(s.id, AlbumImages[k]) : k \in 1..Len(AlbumImages)}

(***************************************************************************)
(* beta.py: fetch, download_file, merge_dash.                              *)
(***************************************************************************)

\* What one session.get ends in: status 200 with a body, another status,
\* or an exception (timeout, connection error).
Responses == {"ok", "non200", "exc"}

\* line 45: for attempt in range(RETRIES): is there another attempt after
\* attempt number a?
HasNextAttempt(a) == a + 1 < RETRIES

\* line 53: asyncio.sleep(2 ** attempt)
BackoffDelay(a) == 2 ^ a

\* line 61: a slot of the semaphore can be taken.
SemFreeAlways(s) == TRUE
SemFree(s) == s > 0

\* lines 61-62: the free slots once "async with sem" is left, by fetch
\* returning; held: the task had entered it.
SemAfterExitLeak(s, held) == s
SemAfterExit(s, held) == IF held THEN s + 1 ELSE s

\* lines 76-80 and 99-106: merge_dash and what follows it. ffmpeg writes
\* the output when it has both inputs and works (mux_ok); os.remove raises
\* for a missing file.
MergeRaises(dk, v, a) == v \notin dk \/ a \notin dk
MergeDisk(dk, v, a, f, mux_ok) ==
    LET made == IF v \in dk /\ a \in dk /\ mux_ok THEN dk \cup {f} ELSE dk
    IN  IF v \notin made THEN made
        ELSE IF a \notin made THEN made \ {v}
        ELSE made \ {v, a}

\* line 58: if filename in existing_files
SkipNever(name, ex) == FALSE
SkipExisting(name, ex) == name \in ex

\* A handler runs on from an await that has returned until its next
\* await (a session.get, or a wait for the semaphore) or its end: ops are
\* the things left to do, ex is existing_files, dk the directory, cnt the
\* running total. The result has raised = TRUE when an exception left the
\* handler, merged = TRUE when merge_dash was called.
RECURSIVE RunOn(_, _, _, _, _, _)
RunOn(id, ops, ex, dk, cnt, mux_ok) ==
    IF ops = <<>>
    THEN [ops |-> ops, ex |-> ex, dk |-> dk, cnt |-> cnt, raised |-> FALSE,
          merged |-> FALSE]
    ELSE LET o == Head(ops) IN
         IF o.op = "download" /\ SkipExisting(o.name, ex)
         THEN \* line 58-59: return 0
              RunOn(id, Tail(ops), ex, dk, cnt, mux_ok)
         ELSE IF o.op = "merge"
         THEN LET v == Name(id, "_video.mp4")
                  a == Name(id, "_audio.mp4")
                  dk2 == MergeDisk(dk, v, a, o.name, mux_ok)
              IN  IF MergeRaises(dk, v, a)
                  THEN [ops |-> <<>>, ex |-> ex, dk |-> dk2, cnt |-> cnt,
                        raised |-> TRUE, merged |-> TRUE]
                  ELSE \* lines 105-106: existing_files.add(final_name); return 1
                       [ops |-> <<>>, ex |-> ex \cup {o.name}, dk |-> dk2,
                        cnt |-> 1, raised |-> FALSE, merged |-> TRUE]
         ELSE [ops |-> ops, ex |-> ex, dk |-> dk, cnt |-> cnt,
               raised |-> FALSE, merged |-> FALSE]

Tasks == 1..Len(tasks)

\* The task goes on after an await returned: it ends (process_post
\* returns, main adds its value), or it issues the session.get of its next
\* fetch, or it waits for the semaphore. free: the slots free at that
\* moment; w: the download_file calls of the task that returned 1 so far;
\* part: the files a write of this run left cut short.
Continue(i, ops, ex, dk, cnt, free, mux_ok, w, part) ==
    LET r == RunOn(Resolve(tasks[i]).id, ops, ex, dk, cnt, mux_ok) IN
    /\ existing_files' = r.ex
    /\ disk' = r.dk
    /\ wrote' = [wrote EXCEPT ![i] = w]
    /\ muxed' = [muxed EXCEPT ![i] =
                    IF r.merged THEN (IF w = 2 THEN "both" ELSE "missing")
                    ELSE @]
    /\ fetched_present' =
          (\/ fetched_present
           \/ /\ r.ops # <<>>
              /\ Head(r.ops).op = "download"
              /\ Head(r.ops).name \in r.dk
              /\ Head(r.ops).name \notin part)
    /\ todo' = [todo EXCEPT ![i] = r.ops]
    /\ IF r.ops = <<>>
       THEN \* lines 209-212 and 244-245
            /\ tpc' = [tpc EXCEPT ![i] = "done"]
            /\ count' = [count EXCEPT ![i] = r.cnt]
            /\ result' = [result EXCEPT ![i] = IF r.raised THEN 0 ELSE r.cnt]
            /\ total_downloaded' =
                  total_downloaded + (IF r.raised THEN 0 ELSE r.cnt)
            /\ sem' = free
            /\ holds' = [holds EXCEPT ![i] = FALSE]
            /\ UNCHANGED <<attempt, requests, slept, net_calls>>
       ELSE /\ count' = [count EXCEPT ![i] = r.cnt]
            /\ UNCHANGED <<result, total_downloaded>>
            /\ IF Head(r.ops).op = "lookup"
               THEN \* lines 142, 164: fetch, without the semaphore
                    /\ tpc' = [tpc EXCEPT ![i] = "req"]
                    /\ sem' = free
                    /\ holds' = [holds EXCEPT ![i] = FALSE]
                    /\ attempt' = [attempt EXCEPT ![i] = 0]
                    /\ requests' = [requests EXCEPT ![i] = 1]
                    /\ slept' = [slept EXCEPT ![i] = 0]
                    /\ net_calls' = net_calls + 1
               ELSE IF SemFree(free)
               THEN \* lines 61-62: async with sem: fetch
                    /\ tpc' = [tpc EXCEPT ![i] = "req"]
                    /\ sem' = free - 1
                    /\ holds' = [holds EXCEPT ![i] = TRUE]
                    /\ attempt' = [attempt EXCEPT ![i] = 0]
                    /\ requests' = [requests EXCEPT ![i] = 1]
                    /\ slept' = [slept EXCEPT ![i] = 0]
                    /\ net_calls' = net_calls + 1
               ELSE /\ tpc' = [tpc EXCEPT ![i] = "semwait"]
                    /\ sem' = free
                    /\ holds' = [holds EXCEPT ![i] = FALSE]
                    /\ UNCHANGED <<attempt, requests, slept, net_calls>>

\* lines 239-242: every subreddit of SUBREDDITS is listed and one
\* process_post is made for every submission.
Enumerate ==
    /\ enum = "pending"
    /\ enum' = "listed"
    /\ UNCHANGED <<max_concurrent, tasks, arun, disk, existing_files, sem, tpc,
                   todo, attempt, holds, count, result, total_downloaded,
                   requests, slept, dl_last, writes, net_calls, complete,
                   partial, aborted, wrote, muxed, fetched_present,
                   handled_by>>
    /\ UNCHANGED <<relayVars, mainVars>>

\* lines 240-241: reddit.subreddit(...) or the listing of one subreddit
\* raises (not found, private, the API is down); the loop has no handler
\* and the exception leaves main() before any process_post was started.
EnumerateRaises ==
    /\ enum = "pending"
    /\ enum' = "raised"
    /\ UNCHANGED <<max_concurrent, tasks, arun, disk, existing_files, sem, tpc,
                   todo, attempt, holds, count, result, total_downloaded,
                   requests, slept, dl_last, writes, net_calls, complete,
                   partial, aborted, wrote, muxed, fetched_present,
                   handled_by>>
    /\ UNCHANGED <<relayVars, mainVars>>

\* process_post starts: lines 179-207 up to the first await.
StartTask(i, mux_ok) ==
    /\ ~aborted
    /\ tpc[i] = "new"
    /\ enum = "listed"
    /\ Resolve(tasks[i]).id \notin Unreadable
    /\ Continue(i, Plan(Resolve(tasks[i])), existing_files, disk, 0, sem,
                mux_ok, 0, partial)
    /\ handled_by' = [handled_by EXCEPT ![i] = Classify(Resolve(tasks[i]))]
    /\ UNCHANGED <<max_concurrent, tasks, arun, dl_last, writes, complete,
                   partial, aborted, enum>>
    /\ UNCHANGED <<relayVars, mainVars>>

\* line 61: the semaphore lets a waiting download_file in.
EnterSem(i) ==
    /\ ~aborted
    /\ tpc[i] = "semwait"
    /\ SemFree(sem)
    /\ tpc' = [tpc EXCEPT ![i] = "req"]
    /\ sem' = sem - 1
    /\ holds' = [holds EXCEPT ![i] = TRUE]
    /\ attempt' = [attempt EXCEPT ![i] = 0]
    /\ requests' = [requests EXCEPT ![i] = 1]
    /\ slept' = [slept EXCEPT ![i] = 0]
    /\ net_calls' = net_calls + 1
    /\ UNCHANGED <<max_concurrent, tasks, arun, disk, existing_files, todo,
                   count, result, total_downloaded, dl_last, writes, complete,
                   partial, aborted, wrote, muxed, fetched_present>>
    /\ UNCHANGED <<enum, handled_by>>
    /\ UNCHANGED <<relayVars, mainVars>>

\* fetch has returned (data: whether it returned a body): the rest of
\* download_file (lines 63-71), or of the handler that looked up
\* (lines 143, 166), and on to the next await.
FetchReturned(i, data, mux_ok) ==
    LET o == Head(todo[i])
        free == SemAfterExit(sem, holds[i])
    IN
    IF o.op = "lookup"
    THEN /\ Continue(i, AfterLookup(Resolve(tasks[i]), data), existing_files,
                     disk, count[i], free, mux_ok, wrote[i], partial)
         /\ UNCHANGED <<dl_last, writes, partial>>
    ELSE IF data
    THEN /\ Continue(i, Tail(todo[i]), existing_files \cup {o.name},
                     disk \cup {o.name},
                     IF o.counted THEN count[i] + 1 ELSE count[i], free, mux_ok,
                     wrote[i] + 1, partial \ {o.name})
         /\ dl_last' = [dl_last EXCEPT ![i] = "written"]
         /\ writes' = [writes EXCEPT ![o.name] = @ + 1]
         /\ partial' = partial \ {o.name}
    ELSE /\ Continue(i, Tail(todo[i]), existing_files, disk, count[i], free,
                     mux_ok, wrote[i], partial)
         /\ dl_last' = [dl_last EXCEPT ![i] = "failed"]
         /\ UNCHANGED <<writes, partial>>

\* lines 186-189 raise: the exception leaves process_post, and main() at
\* "await f" (line 245), which has no handler: the run ends there.
StartTaskRaises(i) ==
    /\ ~aborted
    /\ enum = "listed"
    /\ tpc[i] = "new"
    /\ Resolve(tasks[i]).id \in Unreadable
    /\ tpc' = [tpc EXCEPT ![i] = "raised"]
    /\ aborted' = TRUE
    /\ UNCHANGED <<max_concurrent, tasks, arun, disk, existing_files, sem, todo,
                   attempt, holds, count, result, total_downloaded, requests,
                   slept, dl_last, writes, net_calls, complete, partial, wrote,
                   muxed, fetched_present>>
    /\ UNCHANGED <<enum, handled_by>>
    /\ UNCHANGED <<relayVars, mainVars>>

\* lines 67-68: status 200, but open() raises (left = FALSE) or f.write
\* raises after open() made the file (left = TRUE). The exception leaves
\* download_file (the semaphore is released) and the handler, and line 208
\* swallows it: process_post returns the 0 it started with.
WriteRaises(i, left) ==
    LET o == Head(todo[i]) IN
    /\ ~aborted
    /\ tpc[i] = "req"
    /\ o.op = "download"
    /\ disk' = IF left THEN disk \cup {o.name} ELSE disk
    /\ partial' = IF left THEN partial \cup {o.name} ELSE partial
    /\ tpc' = [tpc EXCEPT ![i] = "done"]
    /\ todo' = [todo EXCEPT ![i] = <<>>]
    /\ result' = [result EXCEPT ![i] = 0]
    /\ sem' = SemAfterExit(sem, holds[i])
    /\ holds' = [holds EXCEPT ![i] = FALSE]
    /\ dl_last' = [dl_last EXCEPT ![i] = "raised"]
    /\ UNCHANGED <<max_concurrent, tasks, arun, existing_files, attempt, count,
                   total_downloaded, requests, slept, writes, net_calls,
                   complete, aborted, wrote, muxed, fetched_present>>
    /\ UNCHANGED <<enum, handled_by>>
    /\ UNCHANGED <<relayVars, mainVars>>

\* lines 47-51: status 200, the body is read.
ResponseOk(i, mux_ok) ==
    /\ ~aborted
    /\ tpc[i] = "req"
    /\ FetchReturned(i, TRUE, mux_ok)
    /\ UNCHANGED <<max_concurrent, tasks, arun, complete, aborted>>
    /\ UNCHANGED <<enum, handled_by>>
    /\ UNCHANGED <<relayVars, mainVars>>

\* line 48: another status: no exception, the loop goes straight on to the
\* next attempt, or ends and fetch returns None.
ResponseNon200(i, mux_ok) ==
    /\ ~aborted
    /\ tpc[i] = "req"
    /\ IF HasNextAttempt(attempt[i])
       THEN /\ attempt' = [attempt EXCEPT ![i] = @ + 1]
            /\ requests' = [requests EXCEPT ![i] = @ + 1]
            /\ slept' = [slept EXCEPT ![i] = 0]
            /\ net_calls' = net_calls + 1
            /\ UNCHANGED <<disk, existing_files, sem, tpc, todo, holds, count,
                           result, total_downloaded, dl_last, writes, partial,
                           wrote, muxed, fetched_present>>
       ELSE FetchReturned(i, FALSE, mux_ok)
    /\ UNCHANGED <<max_concurrent, tasks, arun, complete, aborted>>
    /\ UNCHANGED <<enum, handled_by>>
    /\ UNCHANGED <<relayVars, mainVars>>

\* lines 52-53: an exception: the task sleeps 2 ** attempt.
ResponseExc(i) ==
    /\ ~aborted
    /\ tpc[i] = "req"
    /\ tpc' = [tpc EXCEPT ![i] = "sleep"]
    /\ slept' = [slept EXCEPT ![i] = BackoffDelay(attempt[i])]
    /\ UNCHANGED <<max_concurrent, tasks, arun, disk, existing_files, sem, todo,
                   attempt, holds, count, result, total_downloaded, requests,
                   dl_last, writes, net_calls, complete, partial, aborted,
                   wrote, muxed, fetched_present>>
    /\ UNCHANGED <<enum, handled_by>>
    /\ UNCHANGED <<relayVars, mainVars>>

\* line 53 returned: the next attempt, or line 54: return None.
Wake(i, mux_ok) ==
    /\ ~aborted
    /\ tpc[i] = "sleep"
    /\ IF HasNextAttempt(attempt[i])
       THEN /\ tpc' = [tpc EXCEPT ![i] = "req"]
            /\ attempt' = [attempt EXCEPT ![i] = @ + 1]
            /\ requests' = [requests EXCEPT ![i] = @ + 1]
            /\ net_calls' = net_calls + 1
            /\ UNCHANGED <<disk, existing_files, sem, todo, holds, count,
                           result, total_downloaded, slept, dl_last, writes,
                           partial, wrote, muxed, fetched_present>>
       ELSE FetchReturned(i, FALSE, mux_ok)
    /\ UNCHANGED <<max_concurrent, tasks, arun, complete, aborted>>
    /\ UNCHANGED <<enum, handled_by>>
    /\ UNCHANGED <<relayVars, mainVars>>

\* What every run of beta.py starts from, given the directory (lines 29-30,
\* 231-237).
AcqFresh ==
    /\ existing_files = disk
    /\ sem = max_concurrent
    /\ tpc = [i \in Tasks |-> "new"]
    /\ todo = [i \in Tasks |-> <<>>]
    /\ attempt = [i \in Tasks |-> 0]
    /\ holds = [i \in Tasks |-> FALSE]
    /\ count = [i \in Tasks |-> 0]
    /\ result = [i \in Tasks |-> 0]
    /\ total_downloaded = 0
    /\ requests = [i \in Tasks |-> 0]
    /\ slept = [i \in Tasks |-> 0]
    /\ dl_last = [i \in Tasks |-> "none"]
    /\ writes = [n \in UNION {NamesOf(Resolve(tasks[i])) : i \in Tasks} |-> 0]
    /\ net_calls = 0
    /\ aborted = FALSE
    /\ wrote = [i \in Tasks |-> 0]
    /\ muxed = [i \in Tasks |-> "none"]
    /\ fetched_present = FALSE
    /\ handled_by = [i \in Tasks |-> "unset"]

AllDone == \A i \in Tasks : tpc[i] = "done"

\* beta.py is run again over the same submissions, on the directory the
\* run before left.
AcqNewRun ==
    /\ AllDone \/ aborted \/ enum = "raised"
    /\ arun < MaxRuns
    /\ arun' = arun + 1
    /\ complete' = \A i \in Tasks : Expected(Resolve(tasks[i])) \subseteq disk
    /\ existing_files' = disk
    /\ sem' = max_concurrent
    /\ tpc' = [i \in Tasks |-> "new"]
    /\ todo' = [i \in Tasks |-> <<>>]
    /\ attempt' = [i \in Tasks |-> 0]
    /\ holds' = [i \in Tasks |-> FALSE]
    /\ count' = [i \in Tasks |-> 0]
    /\ result' = [i \in Tasks |-> 0]
    /\ total_downloaded' = 0
    /\ requests' = [i \in Tasks |-> 0]
    /\ slept' = [i \in Tasks |-> 0]
    /\ dl_last' = [i \in Tasks |-> "none"]
    /\ writes' = [n \in DOMAIN writes |-> 0]
    /\ net_calls' = 0
    /\ aborted' = FALSE
    /\ wrote' = [i \in Tasks |-> 0]
    /\ muxed' = [i \in Tasks |-> "none"]
    /\ fetched_present' = FALSE
    /\ partial' = {}
    /\ enum' = "pending"
    /\ handled_by' = [i \in Tasks |-> "unset"]
    /\ UNCHANGED <<max_concurrent, tasks, disk>>
    /\ UNCHANGED <<relayVars, mainVars>>

InitAcqVars ==
    /\ max_concurrent \in 1..MaxConcurrent
    /\ tasks \in Workloads
    /\ arun = 1
    /\ complete = FALSE
    /\ disk = {}
    /\ partial = {}
    /\ enum = "pending"
    /\ AcqFresh

\* The acquisition engine is not running.
AcqIdle ==
    /\ max_concurrent = 1
    /\ tasks = <<>>
    /\ arun = 1
    /\ complete = FALSE
    /\ disk = {}
    /\ partial = {}
    /\ enum = "pending"
    /\ AcqFresh

NextAcq ==
    \/ Enumerate
    \/ EnumerateRaises
    \/ \E i \in Tasks, m \in BOOLEAN : StartTask(i, m)
    \/ \E i \in Tasks : StartTaskRaises(i)
    \/ \E i \in Tasks : EnterSem(i)
    \/ \E i \in Tasks, m \in BOOLEAN : ResponseOk(i, m)
    \/ \E i \in Tasks, m \in BOOLEAN : ResponseNon200(i, m)
    \/ \E i \in Tasks : ResponseExc(i)
    \/ \E i \in Tasks, left \in BOOLEAN : WriteRaises(i, left)
    \/ \E i \in Tasks, m \in BOOLEAN : Wake(i, m)
    \/ AcqNewRun

----------------------------------------------------------------------------
(***************************************************************************)
(* main.py: the threaded downloader.                                       *)
(*                                                                         *)
(* process_single_post runs on a worker thread for each post of the batch; *)
(* the posts are taken in any order. The urls of i.redd.it end in a media  *)
(* extension, those of the other domains do not.                           *)
(***************************************************************************)

\* A post of redgifs.com, which the front page may hold or not.
RedgifsPost == Post("r1", NoParent, <<>>, "none", "redgifs.com")

\* lines 75-98
is_media_post(s) ==
    \/ s.domain \in {"i.redd.it", "v.redd.it", "redgifs.com", "gfycat.com"}
    \/ Len(s.gallery) > 0
    \/ s.video # "none"

\* lines 298-335: the branch of the if/elif chain of process_single_post
\* that is taken.
Branch(s) ==
    IF s.domain = "redgifs.com" THEN "redgifs.com"
    ELSE IF s.domain = "i.redd.it" THEN "i.redd.it"
    ELSE IF s.domain = "v.redd.it" THEN "v.redd.it"
    ELSE IF Len(s.gallery) > 0 THEN "reddit_gallery"
    ELSE "none"

\* lines 298-332, 188-225: the files the branch calls download_file for;
\* urls: the posts the redgifs tables hold a video url for.
\* The v.redd.it branch takes the fallback_url and nothing else.
Targets(s, urls) ==
    CASE Branch(s) = "redgifs.com" ->
            IF s.id \in urls THEN <<Name(s.id, "_redgifs.mp4")>> ELSE <<>>
      [] Branch(s) = "i.redd.it" -> <<Name(s.id, ".jpg")>>
      [] Branch(s) = "v.redd.it" ->
            IF s.video # "none" THEN <<Name(s.id, ".mp4")>> ELSE <<>>
      [] Branch(s) = "reddit_gallery" ->
            [k \in 1..Len(s.gallery) |-> Name(s.id, s.gallery[k])]
      [] OTHER -> <<>>

\* What a download that gets as far as requests.get may come to: the file
\* is written; an exception before open(); an exception after it.
DownloadOutcomes == {"written", "refused", "cut"}

\* lines 100-119: download_file, given the folder. ok is what it returns.
DownloadFile(dir, name, out) ==
    IF name \in dir
    THEN [ok |-> TRUE, dir |-> dir, gets |-> 0, cut |-> {}]
    ELSE CASE out = "written" ->
                [ok |-> TRUE, dir |-> dir \cup {name}, gets |-> 1, cut |-> {}]
           [] out = "cut" ->
                [ok |-> FALSE, dir |-> dir \cup {name}, gets |-> 1,
                 cut |-> {name}]
           [] OTHER ->
                [ok |-> FALSE, dir |-> dir, gets |-> 1, cut |-> {}]

\* The downloads of one post, one after the other: "if download_file(...):
\* downloaded_count += 1".
RECURSIVE DownloadAll(_, _, _, _)
DownloadAll(targets, out, k, acc) ==
    IF k > Len(targets) THEN acc
    ELSE LET r == DownloadFile(acc.dir, targets[k], out[k])
         IN  DownloadAll(targets, out, k + 1,
                 [dir |-> r.dir,
                  count |-> acc.count + (IF r.ok THEN 1 ELSE 0),
                  gets |-> acc.gets + r.gets,
                  fetched |-> acc.fetched \cup
                              (IF r.gets > 0 THEN {targets[k]} ELSE {}),
                  cut |-> (acc.cut \ {targets[k]}) \cup r.cut])

Posts == 1..Len(media_posts)

\* lines 232-248: redgifs_posts is not empty, so that the body of
\* "if redgifs_posts:" runs, which is where post_id_to_gif_id is assigned.
HasRedgifs(posts) ==
    \E k \in 1..Len(posts) : posts[k].domain = "redgifs.com"

\* lines 227-267: process_posts_batch up to the end of the submit loop,
\* for a batch with a redgifs post. found: the ids the page of which gave
\* a video url. One job per post is handed to the pool.
SubmitJobs(found) ==
    /\ batch = "start"
    /\ HasRedgifs(media_posts)
    /\ found \subseteq {media_posts[k].id : k \in
                            {j \in Posts : media_posts[j].domain = "redgifs.com"}}
    /\ redgifs_urls' = found
    /\ pending' = Posts
    /\ batch' = "jobs"
    /\ UNCHANGED <<media_posts, downloads_dir, branch, downloaded_count, gets,
                   fetched, cut, mrun, batch_total>>
    /\ UNCHANGED <<relayVars, acqVars>>

\* lines 265-267: the batch has no redgifs post; the first
\* executor.submit(..., post_id_to_gif_id) reads a local that was never
\* assigned: UnboundLocalError leaves process_posts_batch and the script.
SubmitRaises ==
    /\ batch = "start"
    /\ ~HasRedgifs(media_posts)
    /\ Len(media_posts) > 0
    /\ batch' = "raised"
    /\ UNCHANGED <<media_posts, pending, downloads_dir, branch,
                   downloaded_count, gets, fetched, cut, mrun, redgifs_urls,
                   batch_total>>
    /\ UNCHANGED <<relayVars, acqVars>>

\* lines 281-344: process_single_post on the k-th post, and lines
\* 269-272: its value is added to total_downloaded.
ProcessSinglePost(k, out) ==
    /\ batch = "jobs"
    /\ k \in pending
    /\ LET s == media_posts[k]
           r == DownloadAll(Targets(s, redgifs_urls), out, 1,
                    [dir |-> downloads_dir, count |-> 0, gets |-> 0,
                     fetched |-> {}, cut |-> cut])
       IN  /\ branch' = [branch EXCEPT ![k] = Branch(s)]
           /\ downloads_dir' = r.dir
           /\ downloaded_count' = [downloaded_count EXCEPT ![k] = r.count]
           /\ gets' = [gets EXCEPT ![k] = r.gets]
           /\ fetched' = [fetched EXCEPT ![k] = r.fetched]
           /\ cut' = r.cut
           /\ batch_total' = batch_total + r.count
    /\ pending' = pending \ {k}
    /\ UNCHANGED <<media_posts, mrun, batch, redgifs_urls>>
    /\ UNCHANGED <<relayVars, acqVars>>

MainFresh ==
    /\ batch = "start"
    /\ redgifs_urls = {}
    /\ batch_total = 0
    /\ pending = {}
    /\ branch = [k \in Posts |-> "unset"]
    /\ downloaded_count = [k \in Posts |-> 0]
    /\ gets = [k \in Posts |-> 0]
    /\ fetched = [k \in Posts |-> {}]

\* The script is run again on the same posts and the same folder.
MainNewRun ==
    /\ \/ batch = "jobs" /\ pending = {}
       \/ batch = "raised"
    /\ mrun < MaxRuns
    /\ mrun' = mrun + 1
    /\ batch' = "start"
    /\ redgifs_urls' = {}
    /\ batch_total' = 0
    /\ pending' = {}
    /\ branch' = [k \in Posts |-> "unset"]
    /\ downloaded_count' = [k \in Posts |-> 0]
    /\ gets' = [k \in Posts |-> 0]
    /\ fetched' = [k \in Posts |-> {}]
    /\ UNCHANGED <<media_posts, downloads_dir, cut>>
    /\ UNCHANGED <<relayVars, acqVars>>

\* lines 385-393: the posts of the front page that pass is_media_post.
InitMainVars ==
    /\ \E w \in Workloads, more \in {<<>>, <<RedgifsPost>>} :
           media_posts = SelectSeq(w \o more, is_media_post)
    /\ downloads_dir = {}
    /\ cut = {}
    /\ mrun = 1
    /\ MainFresh

\* The threaded downloader is not running.
MainIdle ==
    /\ media_posts = <<>>
    /\ downloads_dir = {}
    /\ cut = {}
    /\ mrun = 1
    /\ MainFresh

NextMain ==
    \/ \E found \in SUBSET {RedgifsPost.id} : SubmitJobs(found)
    \/ SubmitRaises
    \/ \E k \in Posts :
          \E out \in [1..Max(1, Len(media_posts[k].gallery)) -> DownloadOutcomes] :
              ProcessSinglePost(k, out)
    \/ MainNewRun

----------------------------------------------------------------------------
(***************************************************************************)
(* tg.py: the store.                                                       *)
(***************************************************************************)

\* _already_uploaded: SELECT 1 FROM uploaded WHERE hash=?
AlreadyUploaded(table, h) == \E r \in table : r.hash = h

\* _mark_uploaded: INSERT OR IGNORE INTO uploaded VALUES (hash, filename, t)
\* (t: the wall clock, which the model reads to the run it falls in)
MarkUploadedReplace(table, h, f, t) ==
    {r \in table : r.hash # h}
        \cup {[hash |-> h, filename |-> f, uploaded_at |-> t]}
MarkUploaded(table, h, f, t) ==
    IF \E r \in table : r.hash = h
    THEN table
    ELSE table \cup {[hash |-> h, filename |-> f, uploaded_at |-> t]}

\* os.path.isfile and os.path.getsize of a name of the folder; what
\* ffmpeg left of a conversion has bytes in it.
IsFile(f) == f \notin Dangling
GetSize(f) == IF f \in ZeroByte THEN 0 ELSE 1

\* str.endswith, for the two suffixes of line 223.
EndsWith(f, suffix) ==
    CASE suffix = "_stream.mp4" -> f \in {"c_stream.mp4"}
      [] suffix = "_thumb.jpg" -> f \in {"c_stream_thumb.jpg", "c_thumb.jpg"}
      [] OTHER -> FALSE

\* lines 222-225: the tests a listed name has to pass.
CollectableAny(f) == TRUE
Collectable(f) ==
    /\ IsFile(f) /\ GetSize(f) > 0
    /\ ~(EndsWith(f, "_stream.mp4") \/ EndsWith(f, "_thumb.jpg"))

\* collect_files: os.walk over what is in the folder now, sorted.
CollectFiles ==
    SelectSeq(DirNames,
              LAMBDA f : /\ f \in folder \cup artifacts \cup ZeroByte \cup Dangling
                         /\ Collectable(f))

(***************************************************************************)
(* tg.py: the flood gate.                                                  *)
(***************************************************************************)

\* wait_for_flood: the time at which it returns when called at time t.
WaitForFloodNoWait(t, until) == t
WaitForFlood(t, until) == IF until > t THEN t + (until - t) ELSE t

\* set_flood_wait: the new value of flood_until.
SetFloodWaitRelative(until, t, seconds) == seconds + FLOOD_MARGIN
SetFloodWait(until, t, seconds) ==
    LET new_until == t + seconds + FLOOD_MARGIN
    IN  IF new_until > until THEN new_until ELSE until

\* the test "retries > MAX_RETRIES" of the handlers and of the loop exit.
RetriesExceededEarly(r) == r >= MAX_RETRIES
RetriesExceeded(r) == r > MAX_RETRIES

\* line 427: if not success and retries > MAX_RETRIES
FailedAfterLoopAlways(ok, r) == ~ok
FailedAfterLoop(ok, r) == ~ok /\ RetriesExceeded(r)

(***************************************************************************)
(* tg.py: video processing.                                                *)
(***************************************************************************)

\* convert_to_streamable: (path, is_temp) for how ffmpeg ended.
ConvertToStreamableUnchecked(path, conv) ==
    [path |-> SplitExt(path)[1] \o "_stream.mp4", is_temp |-> TRUE]
ConvertToStreamable(path, conv) ==
    IF SplitExt(path)[2] = ".mp4" THEN [path |-> path, is_temp |-> FALSE]
    ELSE IF conv = "ok"
    THEN [path |-> SplitExt(path)[1] \o "_stream.mp4", is_temp |-> TRUE]
    ELSE [path |-> path, is_temp |-> FALSE]

\* generate_thumbnail: the thumbnail's path, or None.
GenerateThumbnail(video_path, th) ==
    IF th = "ok" THEN SplitExt(video_path)[1] \o "_thumb.jpg" ELSE NoPath

\* The files the two ffmpeg runs of send_file(path) leave in the folder
\* when they return.
EncoderOutput(path, conv, th) ==
    LET converted == ConvertToStreamable(path, conv).path IN
    (IF SplitExt(path)[2] # ".mp4" /\ conv \in {"ok", "partial"}
     THEN {SplitExt(path)[1] \o "_stream.mp4"} ELSE {})
    \cup
    (IF th = "ok"
     THEN {SplitExt(converted)[1] \o "_thumb.jpg"} ELSE {})

\* cleanup_temp_files(temp_video, thumb_path)
CleanupTempFiles(present, temp_video, thumb_path) ==
    present \ {temp_video, thumb_path}

NoNorm == [conv |-> "none", thumb |-> "none", probe |-> FALSE]
NoPayload == [file |-> NoPath, thumb |-> NoPath, meta |-> FALSE,
              temp_video |-> NoPath]

\* lines 378-386: _mark_uploaded is reached only when send_file returned.
RecordedAfterAny(outcome) == TRUE
RecordedAfter(outcome) == outcome = "returned"

(***************************************************************************)
(* tg.py: run_uploader.                                                    *)
(***************************************************************************)

CurFile == to_upload[idx]

\* lines 238-275: scan, pre-filter, the run's counters.
Prefilter ==
    /\ rpc = "start"
    /\ files' = CollectFiles
    /\ to_upload' = SelectSeq(CollectFiles,
                        LAMBDA f : /\ hashOf[f] # NoHash
                                   /\ ~AlreadyUploaded(uploaded, hashOf[f]))
    /\ pre_skipped' = Cardinality({i \in 1..Len(CollectFiles) :
                          /\ hashOf[CollectFiles[i]] # NoHash
                          /\ AlreadyUploaded(uploaded, hashOf[CollectFiles[i]])})
    /\ rpc' = IF Len(CollectFiles) = 0 \/ Len(to_upload') = 0
              THEN "closed" ELSE "connect"
    /\ sent' = 0
    /\ failed' = 0
    /\ errors_list' = <<>>
    /\ flood_until' = 0
    /\ idx' = 1
    /\ UNCHANGED <<hashOf, uploaded, run, now, retries, success, sleep_for,
                   attempts, flood_gate, transmitted>>
    /\ UNCHANGED <<folder, db_faulty, artifacts, norm, payload, channel>>
    /\ UNCHANGED <<acqVars, mainVars>>

\* lines 436-445: where run_uploader goes after get_chat: on to
\* upload_sequential, or conn.close() and return.
AfterGetChatIgnored(reached) == "file"
AfterGetChat(reached) == IF reached THEN "file" ELSE "closed"

\* lines 434-445: get_chat returns, or raises and the run is abandoned.
Connect ==
    /\ rpc = "connect"
    /\ \E reached \in BOOLEAN :
           /\ channel' = (IF reached THEN "ok" ELSE "failed")
           /\ rpc' = AfterGetChat(reached)
    /\ UNCHANGED <<hashOf, uploaded, run, now, files, to_upload, pre_skipped,
                   idx, retries, success, sent, failed, errors_list,
                   flood_until, sleep_for, attempts, flood_gate, transmitted>>
    /\ UNCHANGED <<folder, db_faulty, artifacts, norm, payload>>
    /\ UNCHANGED <<acqVars, mainVars>>

\* lines 364-368: the next file of to_upload, or the end of the loop.
BeginFile ==
    /\ rpc = "file"
    /\ IF idx > Len(to_upload)
       THEN /\ rpc' = "report"
            /\ UNCHANGED <<retries, success>>
       ELSE /\ rpc' = "gate"
            /\ retries' = 0
            /\ success' = FALSE
    /\ attempts' = 0
    /\ UNCHANGED <<hashOf, uploaded, run, now, files, to_upload, pre_skipped,
                   idx, sent, failed, errors_list, flood_until, sleep_for,
                   flood_gate, transmitted>>
    /\ UNCHANGED <<folder, db_faulty, artifacts, norm, payload, channel>>
    /\ UNCHANGED <<acqVars, mainVars>>

\* line 373: await wait_for_flood()
GateWait ==
    /\ rpc = "gate"
    /\ now' = WaitForFlood(now, flood_until)
    /\ now' <= MaxTime
    /\ rpc' = "delay"
    /\ UNCHANGED <<hashOf, uploaded, run, files, to_upload, pre_skipped, idx,
                   retries, success, sent, failed, errors_list, flood_until,
                   sleep_for, attempts, flood_gate, transmitted>>
    /\ UNCHANGED <<folder, db_faulty, artifacts, norm, payload, channel>>
    /\ UNCHANGED <<acqVars, mainVars>>

\* line 376: await asyncio.sleep(DELAY_BETWEEN)
DelayBetween ==
    /\ rpc = "delay"
    /\ now' = now + DELAY_BETWEEN
    /\ now' <= MaxTime
    /\ rpc' = "send"
    /\ UNCHANGED <<hashOf, uploaded, run, files, to_upload, pre_skipped, idx,
                   retries, success, sent, failed, errors_list, flood_until,
                   sleep_for, attempts, flood_gate, transmitted>>
    /\ UNCHANGED <<folder, db_faulty, artifacts, norm, payload, channel>>
    /\ UNCHANGED <<acqVars, mainVars>>

\* line 378: send_file is called; lines 304-352: for a video the encoder
\* runs (conv, th: how the two ffmpeg runs end, probe: whether ffprobe gave
\* the duration and the dimensions), then the send is issued at time now.
SendIssue(conv, th, probe) ==
    /\ rpc = "send"
    /\ attempts' = attempts + 1
    /\ rpc' = "sending"
    /\ UNCHANGED <<folder, db_faulty, channel>>
    /\ IF IsVideo(CurFile)
       THEN LET c == ConvertToStreamable(CurFile, conv)
                thumb_path == GenerateThumbnail(c.path, th)
            IN  /\ norm' = [conv |-> conv, thumb |-> th, probe |-> probe]
                /\ artifacts' = artifacts \cup EncoderOutput(CurFile, conv, th)
                /\ payload' = [file |-> c.path, thumb |-> thumb_path,
                               meta |-> probe,
                               temp_video |-> IF c.is_temp THEN c.path
                                              ELSE NoPath]
       ELSE /\ norm' = NoNorm
            /\ payload' = [NoPayload EXCEPT !.file = CurFile]
            /\ UNCHANGED artifacts
    /\ UNCHANGED <<hashOf, uploaded, run, now, files, to_upload, pre_skipped,
                   idx, retries, success, sent, failed, errors_list,
                   flood_until, sleep_for, flood_gate, transmitted>>
    /\ UNCHANGED <<acqVars, mainVars>>

\* line 354: finally: cleanup_temp_files(temp_video, thumb_path), on
\* every way out of send_file.
SendFileEnds ==
    /\ UNCHANGED <<folder, db_faulty, channel>>
    /\ artifacts' = CleanupTempFiles(artifacts, payload.temp_video,
                                     payload.thumb)
    /\ norm' = NoNorm
    /\ payload' = NoPayload

\* lines 378-386: the send returned; the record is written, the file
\* counted. db_ok: the INSERT and the commit of _mark_uploaded went
\* through; when either raises sqlite3.Error, _mark_uploaded logs it and
\* returns (lines 93-94).
SendOk(d, db_ok) ==
    /\ rpc = "sending"
    /\ db_ok \/ db_faulty
    /\ now' = now + d
    /\ now' <= MaxTime
    /\ SendFileEnds
    /\ uploaded' = IF RecordedAfter("returned") /\ db_ok
                   THEN MarkUploaded(uploaded, hashOf[CurFile], CurFile, run)
                   ELSE uploaded
    /\ transmitted' = transmitted \cup {CurFile}
    /\ sent' = sent + 1
    /\ success' = TRUE
    /\ rpc' = "next"
    /\ UNCHANGED <<hashOf, run, files, to_upload, pre_skipped, idx, retries,
                   failed, errors_list, flood_until, sleep_for, attempts,
                   flood_gate>>
    /\ UNCHANGED <<acqVars, mainVars>>

\* lines 388-397: FloodWait(e.value = w) raised at time now + d.
SendFlood(d, w) ==
    /\ rpc = "sending"
    /\ SendFileEnds
    /\ uploaded' = IF RecordedAfter("FloodWait")
                   THEN MarkUploaded(uploaded, hashOf[CurFile], CurFile, run)
                   ELSE uploaded
    /\ now' = now + d
    /\ now' <= MaxTime
    /\ retries' = retries + 1
    /\ flood_until' = SetFloodWait(flood_until, now', w)
    /\ flood_gate' = Max(flood_gate, now' + w)
    /\ IF RetriesExceeded(retries')
       THEN rpc' = "next" /\ UNCHANGED sleep_for
       ELSE rpc' = "backoff" /\ sleep_for' = w + FLOOD_MARGIN
    /\ UNCHANGED <<hashOf, run, files, to_upload, pre_skipped, idx,
                   success, sent, failed, errors_list, attempts, transmitted>>
    /\ UNCHANGED <<acqVars, mainVars>>

\* lines 399-417: RPCError (sleep 5) or a connection error (sleep 10).
SendTransient(d, pause) ==
    /\ rpc = "sending"
    /\ SendFileEnds
    /\ uploaded' = IF RecordedAfter("RPCError")
                   THEN MarkUploaded(uploaded, hashOf[CurFile], CurFile, run)
                   ELSE uploaded
    /\ now' = now + d
    /\ now' <= MaxTime
    /\ retries' = retries + 1
    /\ IF RetriesExceeded(retries')
       THEN rpc' = "next" /\ UNCHANGED sleep_for
       ELSE rpc' = "backoff" /\ sleep_for' = pause
    /\ UNCHANGED <<hashOf, run, files, to_upload, pre_skipped, idx,
                   success, sent, failed, errors_list, flood_until, attempts,
                   flood_gate, transmitted>>
    /\ UNCHANGED <<acqVars, mainVars>>

\* lines 419-425: any other exception: the file is failed at once.
SendUnexpected(d) ==
    /\ rpc = "sending"
    /\ SendFileEnds
    /\ uploaded' = IF RecordedAfter("Exception")
                   THEN MarkUploaded(uploaded, hashOf[CurFile], CurFile, run)
                   ELSE uploaded
    /\ now' = now + d
    /\ now' <= MaxTime
    /\ failed' = failed + 1
    /\ errors_list' = Append(errors_list, <<CurFile, "unexpected">>)
    /\ rpc' = "next"
    /\ UNCHANGED <<hashOf, run, files, to_upload, pre_skipped, idx,
                   retries, success, sent, flood_until, sleep_for, attempts,
                   flood_gate, transmitted>>
    /\ UNCHANGED <<acqVars, mainVars>>

\* lines 397, 407, 417: the handler's asyncio.sleep, then the loop test.
Backoff ==
    /\ rpc = "backoff"
    /\ now' = now + sleep_for
    /\ now' <= MaxTime
    /\ rpc' = "gate"
    /\ UNCHANGED <<hashOf, uploaded, run, files, to_upload, pre_skipped, idx,
                   retries, success, sent, failed, errors_list, flood_until,
                   sleep_for, attempts, flood_gate, transmitted>>
    /\ UNCHANGED <<folder, db_faulty, artifacts, norm, payload, channel>>
    /\ UNCHANGED <<acqVars, mainVars>>

\* lines 427-432: after the while loop.
AfterLoop ==
    /\ rpc = "next"
    /\ IF FailedAfterLoop(success, retries)
       THEN /\ failed' = failed + 1
            /\ errors_list' = Append(errors_list,
                                     <<CurFile, "max retries exceeded">>)
       ELSE UNCHANGED <<failed, errors_list>>
    /\ idx' = idx + 1
    /\ rpc' = "file"
    /\ UNCHANGED <<hashOf, uploaded, run, now, files, to_upload, pre_skipped,
                   retries, success, sent, flood_until, sleep_for, attempts,
                   flood_gate, transmitted>>
    /\ UNCHANGED <<folder, db_faulty, artifacts, norm, payload, channel>>
    /\ UNCHANGED <<acqVars, mainVars>>

\* lines 447-462: the final report.
Report ==
    /\ rpc = "report"
    /\ rpc' = "done"
    /\ UNCHANGED <<hashOf, uploaded, run, now, files, to_upload, pre_skipped,
                   idx, retries, success, sent, failed, errors_list,
                   flood_until, sleep_for, attempts, flood_gate, transmitted>>
    /\ UNCHANGED <<folder, db_faulty, artifacts, norm, payload, channel>>
    /\ UNCHANGED <<acqVars, mainVars>>

\* run_uploader is started again: the store and the folder are what the
\* previous run left, everything else is new.
NewRun ==
    /\ rpc \in {"done", "closed"}
    /\ run < MaxRuns
    /\ run' = run + 1
    /\ rpc' = "start"
    /\ files' = <<>>
    /\ to_upload' = <<>>
    /\ pre_skipped' = 0
    /\ idx' = 1
    /\ retries' = 0
    /\ success' = FALSE
    /\ sent' = 0
    /\ failed' = 0
    /\ errors_list' = <<>>
    /\ flood_until' = 0
    /\ sleep_for' = 0
    /\ attempts' = 0
    /\ flood_gate' = 0
    /\ now' = 0
    /\ UNCHANGED <<hashOf, uploaded, transmitted>>
    /\ channel' = "unchecked"
    /\ UNCHANGED <<folder, db_faulty, artifacts, norm, payload>>
    /\ UNCHANGED <<acqVars, mainVars>>

InitRelay ==
    /\ folder \in Folders
    /\ db_faulty \in BOOLEAN
    /\ hashOf \in [Files -> Hashes \cup VideoHashes \cup {NoHash}]
    /\ FileNames[1] \in folder => hashOf[FileNames[1]] = "h1"
    /\ \A f \in Files : /\ hashOf[f] \in VideoHashes => IsVideo(f)
                        /\ hashOf[f] \in Hashes => ~IsVideo(f)
                        /\ f \notin folder => hashOf[f] = NoHash
    /\ uploaded = {}
    /\ run = 1
    /\ rpc = "start"
    /\ now = 0
    /\ files = <<>>
    /\ to_upload = <<>>
    /\ pre_skipped = 0
    /\ idx = 1
    /\ retries = 0
    /\ success = FALSE
    /\ sent = 0
    /\ failed = 0
    /\ errors_list = <<>>
    /\ flood_until = 0
    /\ sleep_for = 0
    /\ attempts = 0
    /\ flood_gate = 0
    /\ transmitted = {}
    /\ artifacts = {}
    /\ norm = NoNorm
    /\ payload = NoPayload
    /\ channel = "unchecked"
    /\ AcqIdle
    /\ MainIdle

\* The relay engine is not running.
RelayIdle ==
    /\ hashOf = [f \in Files |-> NoHash]
    /\ uploaded = {}
    /\ run = 1
    /\ rpc = "off"
    /\ now = 0
    /\ files = <<>>
    /\ to_upload = <<>>
    /\ pre_skipped = 0
    /\ idx = 1
    /\ retries = 0
    /\ success = FALSE
    /\ sent = 0
    /\ failed = 0
    /\ errors_list = <<>>
    /\ flood_until = 0
    /\ sleep_for = 0
    /\ attempts = 0
    /\ flood_gate = 0
    /\ transmitted = {}
    /\ folder = {}
    /\ db_faulty = FALSE
    /\ artifacts = {}
    /\ norm = NoNorm
    /\ payload = NoPayload
    /\ channel = "unchecked"

InitAcq == RelayIdle /\ InitAcqVars /\ MainIdle

SpecAcq == InitAcq /\ [][NextAcq]_vars

\* The event loop runs whatever task is ready, and every await of the
\* acquisition returns: session.get by its timeout, the sleeps, the
\* semaphore when a slot is given back. One slot; a workload whose
\* downloads wait for it, and the one with a submission that cannot be
\* read.
InitAcqLive ==
    /\ InitAcq
    /\ max_concurrent = 1
    /\ tasks \in {<<ById("p10"), ById("p11")>>, <<ById("p2"), ById("p9")>>}

SpecAcqLive == InitAcqLive /\ [][NextAcq]_vars /\ WF_vars(NextAcq)

InitMain == RelayIdle /\ AcqIdle /\ InitMainVars

SpecMain == InitMain /\ [][NextMain]_vars

NextRelay ==
    \/ Prefilter
    \/ Connect
    \/ BeginFile
    \/ GateWait
    \/ DelayBetween
    \/ \E conv \in EncoderOutcomes, th \in ThumbOutcomes, probe \in BOOLEAN :
          SendIssue(conv, th, probe)
    \/ \E d \in SendTimes, db_ok \in BOOLEAN : SendOk(d, db_ok)
    \/ \E d \in SendTimes, w \in FloodValues : SendFlood(d, w)
    \/ \E d \in SendTimes : SendTransient(d, RPC_SLEEP)
    \/ \E d \in SendTimes : SendTransient(d, CONN_SLEEP)
    \/ \E d \in SendTimes : SendUnexpected(d)
    \/ Backoff
    \/ AfterLoop
    \/ Report
    \/ NewRun

SpecRelay == InitRelay /\ [][NextRelay]_vars

\* run_uploader is the only coroutine of the relay and every await of it
\* (a sleep, a send, get_chat) returns: a step that can be taken is taken.
\* The folder holds two files of different content and the store takes
\* every write.
InitRelayLive ==
    /\ InitRelay
    /\ folder = {"a.jpg", "b.jpg"}
    /\ hashOf["b.jpg"] = "h2"
    /\ ~db_faulty

SpecRelayLive == InitRelayLive /\ [][NextRelay]_vars /\ WF_vars(NextRelay)

----------------------------------------------------------------------------
(***************************************************************************)
(* Claims about the relay engine (checked under SpecRelay).                *)
(***************************************************************************)

\* C1: global flood gate. Within a run, once a send was rejected at time t
\* with a rate-limit signal of W seconds, no send (of the same file or of a
\* later one) is issued before t + W; and every send is issued only after
\* the shared deadline flood_until was checked and has passed.
C1_FloodGate ==
    rpc = "sending" => /\ now >= flood_gate
                       /\ now >= flood_until

\* A later file is sent right after its wait_for_flood slept out the
\* deadline left by the file before it, which ran out of retries on a
\* FloodWait.
C1_Witness ==
    /\ rpc = "sending"
    /\ idx = 2
    /\ attempts = 1
    /\ failed = 1
    /\ flood_gate > 0
    /\ now = flood_until + DELAY_BETWEEN

\* C2: flood_until is monotonic within a run: no step lowers it, and the
\* only step that changes it is the FloodWait handler's set_flood_wait,
\* which sets it to now + e.value + 2, strictly later than it was.
C2_FloodUntilMonotonic ==
    [][run' = run =>
        /\ flood_until' >= flood_until
        /\ flood_until' # flood_until =>
              /\ rpc = "sending"
              /\ \E w \in FloodValues : flood_until' = now' + w + FLOOD_MARGIN]_vars

\* Two FloodWaits in a row (1 s, then MaxFloodWait s) for the first file:
\* the deadline was raised twice.
C2_Witness ==
    /\ rpc = "backoff"
    /\ retries = 2
    /\ now = 3 * DELAY_BETWEEN
    /\ flood_until = now + MaxFloodWait + FLOOD_MARGIN

\* C3: content dedup. Of two files with identical content and different
\* names, only one is ever transmitted: the other is skipped, never sent.
C3_ContentDedup ==
    \A f \in transmitted, g \in transmitted :
        f # g => hashOf[f] # hashOf[g]

\* the file the while loop was (rpc = "next") or has just been
\* (rpc = "file") running for.
LoopFile == IF rpc = "next" THEN to_upload[idx] ELSE to_upload[idx - 1]
LoopLeft == rpc = "next" \/ (rpc = "file" /\ idx > 1)
HitUnexpected(f) ==
    \E i \in 1..Len(errors_list) : errors_list[i] = <<f, "unexpected">>

\* C8: bounded retries. send_file is never called more than
\* MAX_RETRIES + 1 times for a file; a file all of whose sends failed
\* transiently (FloodWait, RPCError, connection error) has had exactly
\* MAX_RETRIES + 1 sends when its loop is left, and is then counted as
\* failed, once.
C8_BoundedRetries ==
    /\ attempts <= MAX_RETRIES + 1
    /\ (LoopLeft /\ ~success /\ ~HitUnexpected(LoopFile)) =>
          /\ attempts = MAX_RETRIES + 1
          /\ retries = MAX_RETRIES + 1
    /\ (rpc = "file" /\ idx > 1 /\ ~success /\ ~HitUnexpected(LoopFile)) =>
          /\ Cardinality({i \in 1..Len(errors_list) :
                errors_list[i] = <<LoopFile, "max retries exceeded">>}) = 1
          /\ failed = Len(errors_list)

\* The first file failed MAX_RETRIES + 1 times and the loop moved on.
C8_Witness ==
    /\ rpc = "file"
    /\ idx = 2
    /\ ~success
    /\ attempts = MAX_RETRIES + 1
    /\ failed = 1
    /\ errors_list = <<<<to_upload[1], "max retries exceeded">>>>


\* C16: causal recording. Every record of the table is of a file whose
\* send returned: the record's name is that of a transmitted file and its
\* hash is that file's hash. A file none of whose sends returned has no
\* record of its own.
C16_RecordedAfterSend ==
    \A r \in uploaded : /\ r.filename \in transmitted
                        /\ hashOf[r.filename] = r.hash

\* The first file was given up as failed, the second was sent: one
\* record, of the second file.
C16_Witness ==
    /\ rpc = "file"
    /\ idx = 3
    /\ failed = 1
    /\ sent = 1
    /\ transmitted = {to_upload[2]}
    /\ uploaded = {[hash |-> hashOf[to_upload[2]], filename |-> to_upload[2],
                    uploaded_at |-> run]}

\* C17: hash-store uniqueness. The table never holds two records of one
\* hash, and no step removes or changes a record: recording a hash that
\* is there leaves the first record (name and time) as it was, within a
\* run and from run to run.
C17_HashStoreUnique ==
    [][/\ uploaded \subseteq uploaded'
       /\ \A r1 \in uploaded', r2 \in uploaded' :
             r1.hash = r2.hash => r1 = r2]_vars

\* Two files of one content were both sent in the first run; in the
\* second run the table still holds the one record, of the first file.
C17_Witness ==
    /\ run = 2
    /\ transmitted = {"a.jpg", "b.jpg"}
    /\ hashOf["a.jpg"] = hashOf["b.jpg"]
    /\ uploaded = {[hash |-> "h1", filename |-> "a.jpg", uploaded_at |-> 1]}

\* C18: once send_file has ended, by returning or raising, no
\* _stream.mp4 or _thumb.jpg file is in the folder.
C18_NoArtifactsLeft ==
    rpc # "sending" => artifacts = {}

\* C19: encoder failures are not fatal. The step that calls send_file for
\* a video always issues the send, in that same attempt, and touches
\* neither retries nor failed; what it sends is the original file when the
\* conversion did not succeed, has no thumbnail when thumbnail extraction
\* did not succeed, and has no duration and dimensions when the probes
\* failed.
C19_EncoderFailureNotFatal ==
    [][(rpc = "send" /\ IsVideo(CurFile)) =>
          /\ rpc' = "sending"
          /\ attempts' = attempts + 1
          /\ retries' = retries
          /\ failed' = failed
          /\ errors_list' = errors_list
          /\ norm'.conv # "ok" => /\ payload'.file = CurFile
                                  /\ payload'.temp_video = NoPath
          /\ norm'.thumb # "ok" => payload'.thumb = NoPath
          /\ ~norm'.probe => ~payload'.meta]_vars

\* The conversion of c.webm timed out with part of the output written,
\* no thumbnail could be made and the probes failed: the original is sent
\* in the first attempt, and that send returned.
C19_Witness ==
    /\ rpc = "next"
    /\ CurFile = "c.webm"
    /\ success
    /\ attempts = 1
    /\ retries = 0
    /\ "c.webm" \in transmitted
    /\ "c_stream.mp4" \in artifacts

\* The number of entries of errors_list that are of file f.
FailedCount(f) ==
    Cardinality({i \in 1..Len(errors_list) : errors_list[i][1] = f})

\* The final report is reached with every file of to_upload marked once:
\* sent, or failed with one entry of errors_list, never both. (A file may
\* have been transmitted by an earlier run and be given up in this one.)
Reported ==
    /\ rpc = "done"
    /\ idx = Len(to_upload) + 1
    /\ sent + failed = Len(to_upload)
    /\ failed = Len(errors_list)
    /\ \A k \in 1..Len(to_upload) :
          IF FailedCount(to_upload[k]) = 0
          THEN to_upload[k] \in transmitted
          ELSE FailedCount(to_upload[k]) = 1

\* The clock of the model cannot take the sleep that is due.
Horizon ==
    \/ rpc = "gate" /\ WaitForFlood(now, flood_until) > MaxTime
    \/ rpc = "delay" /\ now + DELAY_BETWEEN > MaxTime
    \/ rpc = "backoff" /\ now + sleep_for > MaxTime

\* C20: relay progress. Once the upload loop has started, whatever the
\* channel answers, the run reaches the final report with every file of
\* to_upload marked sent or failed, each exactly once (a file that ran out
\* of retries or hit an unexpected error has one entry of errors_list and
\* the loop went on to the next file), unless the run outlasts the clock
\* of the model.
C20_RelayProgress ==
    \A r \in 1..MaxRuns :
        (run = r /\ rpc = "file" /\ idx = 1)
            ~> (run = r /\ (Reported \/ Horizon))

\* The report is reached after one file was given up and the next sent.
C20_Witness ==
    /\ Reported
    /\ Len(to_upload) = 2
    /\ failed = 1
    /\ sent = 1
    /\ errors_list[1][1] = to_upload[1]

\* C26: the scanner returns exactly the non-empty regular files of the
\* folder whose names do not end in _stream.mp4 or _thumb.jpg, each once
\* and in the order of their names; no file of size 0, no link without a
\* target and no file ffmpeg left behind is in files or in to_upload.
C26_ScannerFilter ==
    rpc \notin {"start", "off"} =>
        /\ {files[i] : i \in 1..Len(files)} =
               (folder \cup artifacts \cup ZeroByte \cup Dangling)
               \ (ZeroByte \cup Dangling \cup
                  {"c_stream.mp4", "c_stream_thumb.jpg", "c_thumb.jpg"})
        /\ \A i \in 1..Len(files), j \in 1..Len(files) :
               i < j => \E m \in 1..Len(DirNames), n \in 1..Len(DirNames) :
                            m < n /\ DirNames[m] = files[i]
                                  /\ DirNames[n] = files[j]
        /\ \A i \in 1..Len(to_upload) :
               to_upload[i] \in folder \ (ZeroByte \cup Dangling \cup artifacts)

\* The second run scans the folder while the c_stream.mp4 that a failed
\* conversion of the first run left behind is in it.
C26_Witness ==
    /\ run = 2
    /\ rpc \notin {"start", "off"}
    /\ "c_stream.mp4" \in artifacts
    /\ files = <<"c.webm">>

\* C27: when get_chat raised, the run is over at once: from then on no
\* send is prepared or issued, nothing is counted as sent or failed, and
\* the table is what the step found, so no record is written and those of
\* earlier runs stay as they were.
C27_FatalChannelFailure ==
    [][channel' = "failed" =>
          /\ rpc' = "closed"
          /\ uploaded' = uploaded
          /\ sent' = 0
          /\ failed' = 0
          /\ attempts' = 0
          /\ payload' = NoPayload
          /\ transmitted' = transmitted]_vars

\* The first run recorded a.jpg and failed on b.jpg; in the second run
\* get_chat raised.
C27_Witness ==
    /\ run = 2
    /\ channel = "failed"
    /\ rpc = "closed"
    /\ Len(to_upload) = 1
    /\ uploaded = {[hash |-> "h1", filename |-> "a.jpg", uploaded_at |-> 1]}

\* C29: every file whose send returned and that was counted as sent has
\* a record of its hash in the table, also when the INSERT or the commit
\* raised a database error.
C29_RecordedWhenSent ==
    \A f \in transmitted : AlreadyUploaded(uploaded, hashOf[f])

\* C31: relay accounting. When the final report is reached, every file
\* collect_files returned has been counted once, as sent, as skipped by
\* the pre-filter or as failed: the three counters add up to the number of
\* files scanned, files that could not be hashed included.
C31_RelayAccounting ==
    rpc = "done" => sent + pre_skipped + failed = Len(files)

----------------------------------------------------------------------------
(***************************************************************************)
(* Claims about the acquisition engine (checked under SpecAcq).            *)
(***************************************************************************)

Holders == {i \in Tasks : holds[i]}

\* C4: concurrency bound. At every moment the number of download_file
\* calls inside "async with sem" is at most the configured
\* MAX_CONCURRENT, and the semaphore never goes below zero.
C4_ConcurrencyBound ==
    /\ Cardinality(Holders) <= max_concurrent
    /\ sem >= 0

\* Every slot of a semaphore of more than one slot is taken and a third
\* download_file waits at the gate.
C4_Witness ==
    /\ max_concurrent > 1
    /\ Cardinality(Holders) = max_concurrent
    /\ \E i \in Tasks : tpc[i] = "semwait"

\* C5: every network request of the acquisition engine is made by a task
\* that holds an admission slot, the lookups of handle_imgur and
\* handle_gfycat included.
C5_RequestsHoldSlot ==
    \A i \in Tasks : tpc[i] \in {"req", "sleep"} => holds[i]

\* C6: for any target name, at most one task fetches it at a time and at
\* most one file write happens in a run.
C6_OneDownloadPerName ==
    /\ \A n \in DOMAIN writes : writes[n] <= 1
    /\ \A i \in Tasks, j \in Tasks :
          (/\ i # j
           /\ tpc[i] \in {"req", "sleep"} /\ tpc[j] \in {"req", "sleep"}
           /\ Head(todo[i]).op = "download" /\ Head(todo[j]).op = "download")
          => Head(todo[i]).name # Head(todo[j]).name

\* C7: a run that starts with every expected file of every submission in
\* the directory makes no network request.
C7_IdempotentRerun ==
    (arun > 1 /\ complete) => net_calls = 0

\* C9: a download_file whose every request failed has made exactly
\* RETRIES + 1 requests when it gives up, and has written nothing.
C9_RetryCount ==
    \A i \in Tasks :
        (tpc[i] = "done" /\ dl_last[i] = "failed") =>
            requests[i] = RETRIES + 1

\* C10: a request that follows a failed attempt of the same fetch comes
\* after a sleep of 2 ** (number of the failed attempt): 1 s, 2 s, 4 s.
C10_Backoff ==
    \A i \in Tasks :
        (tpc[i] = "req" /\ attempt[i] >= 1) =>
            slept[i] = 2 ^ (attempt[i] - 1)

\* Every download_file of the handler of task i, still to start, is for a
\* file that is in the directory and was not left cut short by this run.
PlanPresent(i) ==
    LET pl == Plan(Resolve(tasks[i])) IN
    /\ tpc[i] = "new"
    /\ Resolve(tasks[i]).id \notin Unreadable
    /\ pl # <<>>
    /\ \A k \in 1..Len(pl) : /\ pl[k].op = "download"
                             /\ pl[k].name \in disk
                             /\ pl[k].name \notin partial

C12_MuxAfterBothParts ==
    \A i \in Tasks : muxed[i] # "missing"

IsDash(s) == Len(s.gallery) = 0 /\ s.video = "dash"

\* C13: once handle_reddit_video has ended for a DASH item, neither
\* <id>_video.mp4 nor <id>_audio.mp4 is in the directory.
C13_NoTempParts ==
    \A i \in Tasks :
        (tpc[i] = "done" /\ IsDash(Resolve(tasks[i]))) =>
            /\ Name(Resolve(tasks[i]).id, "_video.mp4") \notin disk
            /\ Name(Resolve(tasks[i]).id, "_audio.mp4") \notin disk

\* C14: no failure of one post ends the run: main() is never left by an
\* exception, so every other post is processed and counted.
C14_FailureIsolation == ~aborted

\* C15: the value process_post returns for a gallery is the number of its
\* parts whose download_file wrote a file.
C15_GalleryPartialCount ==
    \A i \in Tasks :
        (tpc[i] = "done" /\ Len(Resolve(tasks[i]).gallery) > 0) =>
            result[i] = wrote[i]

\* C21: safe resume. A file that a failed write left cut short is not
\* taken for acquired by the next run: when the script is started again,
\* no such file is in the existing_files the run starts with (the names
\* download_file returns 0 for without a request).
C21_SafeResume ==
    [][arun' = arun + 1 => partial \cap existing_files' = {}]_vars

\* C22: the failure to list one subreddit does not end the run.
C22_EnumerationIsolated ==
    enum # "raised"

\* C23: within a run no item is processed twice: of the tasks that resolve
\* to one submission id at most one gets as far as a handler.
C23_NoItemTwice ==
    \A i \in Tasks, j \in Tasks :
        (i # j /\ Resolve(tasks[i]).id = Resolve(tasks[j]).id) =>
            ~(handled_by[i] # "unset" /\ handled_by[j] # "unset")

\* The kinds a submission is of, and the order the kinds are to be tried
\* in: gallery, reddit video, third-party host, direct file.
Matching(s) ==
    (IF Len(s.gallery) > 0 THEN {"handle_gallery"} ELSE {})
    \cup (IF s.video # "none" THEN {"handle_reddit_video"} ELSE {})
    \cup (IF s.domain \in {"imgur.com", "imgur.com/a"}
          THEN {"handle_imgur"} ELSE {})
    \cup (IF s.domain = "gfycat.com" THEN {"handle_gfycat"} ELSE {})
    \cup (IF s.domain = "redgifs.com" THEN {"redgifs"} ELSE {})
    \cup (IF s.domain = "i.redd.it" THEN {"download_file"} ELSE {})
KindOrder ==
    <<{"handle_gallery"}, {"handle_reddit_video"},
      {"handle_imgur", "handle_gfycat", "redgifs"}, {"download_file"}>>
EarliestOf(kinds) ==
    LET ranks == {k \in 1..Len(KindOrder) : KindOrder[k] \cap kinds # {}}
        first == CHOOSE k \in ranks : \A m \in ranks : k <= m
    IN  KindOrder[first] \cap kinds
EarliestKinds(s) == EarliestOf(Matching(s))

\* process_post: a post is handled by the earliest kind it is of, and by
\* that one only; a video with a DASH manifest is taken as two streams,
\* never as its fallback file; a post of no kind ends at once with 0
\* downloads and no request.
C24_InProcessPost ==
    \A i \in Tasks :
        handled_by[i] # "unset" =>
            LET s == Resolve(tasks[i]) IN
            IF Matching(s) = {}
            THEN /\ handled_by[i] = "none"
                 /\ tpc[i] = "done"
                 /\ result[i] = 0
                 /\ requests[i] = 0
            ELSE /\ handled_by[i] \in EarliestKinds(s)
                 /\ \A k \in 1..Len(todo[i]) :
                       /\ handled_by[i] = "handle_gallery" =>
                             \E m \in 1..Len(s.gallery) :
                                 todo[i][k].name = Name(s.id, s.gallery[m])
                       /\ (handled_by[i] = "handle_reddit_video"
                           /\ s.video = "dash") =>
                             ~(/\ todo[i][k].op = "download"
                               /\ todo[i][k].name = Name(s.id, ".mp4"))

\* The kinds process_single_post has a branch for, and the kind a branch
\* of it stands for.
SinglePostKinds ==
    {"handle_gallery", "handle_reddit_video", "redgifs", "download_file"}
BranchKind(b) ==
    CASE b = "reddit_gallery" -> "handle_gallery"
      [] b = "redgifs.com" -> "redgifs"
      [] b = "v.redd.it" -> "handle_reddit_video"
      [] b = "i.redd.it" -> "download_file"
      [] OTHER -> "none"

\* process_single_post: the same, of the kinds it has a branch for.
C24_InProcessSinglePost ==
    \A k \in Posts :
        branch[k] # "unset" =>
            LET s == media_posts[k]
                kinds == Matching(s) \cap SinglePostKinds
            IN  IF kinds = {}
                THEN /\ branch[k] = "none"
                     /\ downloaded_count[k] = 0
                     /\ gets[k] = 0
                ELSE /\ BranchKind(branch[k]) \in EarliestOf(kinds)
                     /\ s.video = "dash" =>
                            Name(s.id, ".mp4") \notin fetched[k]

\* C24: classification is first-match-wins. A post is handled by the
\* earliest kind it is of, in the order gallery, reddit video (two streams
\* before the single fallback stream), third-party host, direct file, and
\* by that one only; a post of no kind gives 0 downloads and no error.
C24_FirstMatchWins ==
    /\ C24_InProcessPost
    /\ C24_InProcessSinglePost

\* C25: a crosspost is handled as its parent: the branch taken is the
\* parent's, every file it asks for or leaves in the directory is named
\* after the parent's id, and none after its own.
C25_CrosspostAsParent ==
    \A i \in Tasks :
        (tasks[i].parent # NoParent /\ handled_by[i] # "unset") =>
            /\ handled_by[i] \in EarliestKinds(ById(tasks[i].parent))
            /\ \A k \in 1..Len(todo[i]) :
                   todo[i][k].name[1] = tasks[i].parent
            /\ \A n \in disk : n[1] # tasks[i].id

\* The crosspost x1 is requesting the parent's file, before the parent's
\* own task has started.
C25_Witness ==
    /\ Len(tasks) = 3
    /\ tasks[2].id = "x1"
    /\ tpc[1] = "new"
    /\ tpc[2] = "req"
    /\ handled_by[2] = "download_file"
    /\ Head(todo[2]).name = Name("p1", ".jpg")

\* C28: a post with one direct download whose file is already in the
\* directory makes no request and is reported with a count of 1.
C28_SkipCountsOne ==
    \A i \in Tasks :
        (/\ tpc[i] = "done"
         /\ handled_by[i] = "download_file"
         /\ requests[i] = 0
         /\ Name(Resolve(tasks[i]).id, ".jpg") \in disk \ partial) =>
            result[i] = 1

\* C30: slots are given back on every way out of the semaphore. Whenever
\* every task has finished, all the slots are free and no task holds one;
\* and once the tasks exist, the run gets to that point (every task ends,
\* none waits for a slot for ever) unless an exception has left main().
C30_SlotsReleased ==
    /\ [](AllDone => /\ sem = max_concurrent
                     /\ \A i \in Tasks : ~holds[i])
    /\ \A r \in 1..MaxRuns :
          (arun = r /\ enum = "listed")
              ~> (arun = r /\ (aborted \/ (AllDone /\ sem = max_concurrent)))

\* With one slot, the gallery item of p10 and the video of p11 were both
\* fetched and written, one task having waited for the slot; in the second
\* run a write raised; all is done and the slot is free.
C30_Witness ==
    /\ max_concurrent = 1
    /\ Len(tasks) = 2
    /\ tasks[2].id = "p11"
    /\ arun = 2
    /\ AllDone
    /\ ~aborted
    /\ \E i \in Tasks : dl_last[i] = "raised"
    /\ sem = 1

\* C32: existing_files is sound. Every name in it is the name of a file
\* that is in the download directory.
C32_ExistingFilesSound ==
    existing_files \subseteq disk

\* C33: process_posts_batch hands one process_single_post job to the pool
\* for every post of the batch and returns the sum of what the jobs
\* returned, for every batch, with or without a post of redgifs.com: no
\* exception leaves it, and once all jobs are done every post was
\* processed and total_downloaded is the sum of the counts.
RECURSIVE SumOf(_, _)
SumOf(f, n) == IF n = 0 THEN 0 ELSE f[n] + SumOf(f, n - 1)
C33_OneJobPerPost ==
    /\ batch # "raised"
    /\ (batch = "jobs" /\ pending = {}) =>
           /\ \A k \in Posts : branch[k] # "unset"
           /\ batch_total = SumOf(downloaded_count, Len(media_posts))

=============================================================================
